---- MODULE Spec2Model ----
(***************************************************************************)
(* A model of PyBMF's greedy exact-cover synthesizer (models/Hyper.py), of  *)
(* its exhaustive per-row refiner (models/AssoOpt.py) and of its penalty   *)
(* function algorithm (models/BinaryMFPenalty.py).                         *)
(*                                                                         *)
(* Matrices are sets of cells <<row, column>>, rows and columns counted    *)
(* from 0 as in the source; Python lists are sequences, so the source's    *)
(* I[0] is I[1] here.  A cost is the exact fraction <<numerator,           *)
(* denominator>> of the float the source computes, and <<1, 0>> is np.inf. *)
(***************************************************************************)
EXTENDS Integers, Sequences, FiniteSets

VARIABLES
    \* attributes of BaseModel, shared by the models
    m, n,           \* shape of X_train
    X_train,        \* the ground truth, a set of cells
    U, V,           \* the factors: U[f] is the set of rows, V[f] the set of
                    \* columns that are 1 in factor column f
    has_UV,         \* whether self.U and self.V have been assigned
    self_k,         \* self.k, -1 while the attribute is not set
    pc,             \* position in the running method
    err,            \* the exception that ended the run, "none" otherwise
    \* Hyper
    min_count,      \* min_support = min_count / m
    I, T, c,        \* the candidate lists: itemsets, transactions, costs
    X_uncovered,    \* the residual, a set of cells
    T_final, I_final,
    k,              \* the local k of _fit
    it, L,          \* the for loop of _fit: iterations done, range(len(self.I))
    n_iter,
    emptied,        \* itemsets for which find_hyper has returned []
    recalled,       \* itemsets find_hyper was called on after it returned [] for them
    \* AssoOpt
    w,              \* the trade-off weight, a fraction <<numerator, denominator>>
    results,        \* what p_map has collected: row -> integer, -1 while pending
    pending,        \* the rows whose task has not returned yet
    i_row,          \* the loop variable of lines 68-69
    X_pd,           \* the prediction of BaseModel.predict
    U0, V0,         \* U and V as they were when exhaustive_search was called
    \* BinaryMFPenalty: U[i][f] and V[j][f] are floats here, rows and factor
    \* columns counted from 1
    W,              \* the weights, the set of cells whose weight is 1
    reg, reg_growth, tol, max_iter,
    pen_n_iter,     \* the local n_iter of BinaryMFPenalty._fit
    is_improving,
    reg_error_old, diff,
    terminal,       \* how the loop was ended, "none" while it runs
    reg_init,       \* reg as it was when _fit was called
    U_pre, V_pre,   \* U and V as they were before the last update
    U_es, V_es,     \* U and V as they were when early_stop was called
    k_arg           \* the k early_stop was called with, -1 for None

base_vars == <<m, n, X_train, U, V, has_UV, self_k, pc, err>>

hyper_only == <<min_count, I, T, c, X_uncovered, T_final, I_final, k, it, L,
                n_iter, emptied, recalled>>

asso_only == <<w, results, pending, i_row, X_pd, U0, V0>>

pen_only == <<W, reg, reg_growth, tol, max_iter, pen_n_iter, is_improving,
              reg_error_old, diff, terminal, reg_init, U_pre, V_pre, U_es, V_es,
              k_arg>>

\* what the actions of one model leave alone
not_hyper == <<asso_only, pen_only>>

not_asso == <<hyper_only, pen_only>>

not_pen == <<hyper_only, asso_only>>

vars == <<base_vars, hyper_only, asso_only, pen_only>>

----------------------------------------------------------------------------
(* Bounds of the model *)

\* Hyper: X_train has at most MaxM rows, MaxN columns and MaxCells cells
MaxM == 4
MaxN == 3
MaxCells == 9

----------------------------------------------------------------------------
(* Costs: fractions, with np.inf *)

\* a cost of zero for the unusable itemset
Inf_zero == <<0, 1>>

Inf == <<1, 0>>

Lt(x, y) == IF x[2] = 0 THEN FALSE
            ELSE IF y[2] = 0 THEN TRUE
            ELSE x[1] * y[2] < y[1] * x[2]

Le(x, y) == ~Lt(y, x)

Gt(x, y) == Lt(y, x)

RECURSIVE argsort_from(_, _)
argsort_from(keys, left) ==
    IF left = {} THEN <<>>
    ELSE LET i == CHOOSE i \in left : \A j \in left \ {i} :
                     \/ Lt(keys[i], keys[j])
                     \/ (~Lt(keys[j], keys[i]) /\ i < j)
         IN  <<i>> \o argsort_from(keys, left \ {i})

\* np.argsort: the positions of keys in ascending order of key; equal keys
\* keep their order (numpy sorts arrays this short by insertion).
argsort(keys) == argsort_from(keys, DOMAIN keys)

Reverse(s) == [i \in 1..Len(s) |-> s[Len(s) + 1 - i]]

Range(s) == {s[i] : i \in DOMAIN s}

----------------------------------------------------------------------------
(* Hyper.cost and Hyper.find_hyper *)

\* X_uncovered[T, :][:, I].sum()
cover_sum(Tr, Is, Xu) ==
    Cardinality({cell \in Xu : cell[1] \in Range(Tr) /\ cell[2] \in Is})

\* the area of the pattern for its description length
cost_product(Tr, Is, Xu) == <<Len(Tr) * Cardinality(Is), cover_sum(Tr, Is, Xu)>>

cost(Tr, Is, Xu) == <<Len(Tr) + Cardinality(Is), cover_sum(Tr, Is, Xu)>>

\* line 170 of Hyper.py: `if cost_new <= cost_new`
keep_row(cost_new, cost_old) == Le(cost_new, cost_new)

RECURSIVE grow(_, _, _, _, _)
grow(Tr, queue, cost_old, Is, Xu) ==
    IF Len(queue) = 0 THEN [T |-> Tr, c |-> cost_old]
    ELSE LET t == Head(queue)
             cost_new == cost(Append(Tr, t), Is, Xu)
         IN  IF keep_row(cost_new, cost_old)
             THEN grow(Append(Tr, t), Tail(queue), cost_new, Is, Xu)
             ELSE [T |-> Tr, c |-> cost_old]

row_count(Is, Xm, r) == Cardinality({col \in Is : <<r, col>> \in Xm})

\* the queue without the test that the row supports Is
hyper_queue_unsupported(Is, X_gt, Xu) ==
    LET uncovered == [r \in 0..(m - 1) |-> row_count(Is, Xu, r)]
        idx == Reverse(argsort([i \in 1..m |-> <<uncovered[i - 1], 1>>]))
        rows == [i \in 1..m |-> idx[i] - 1]
        exact(r) == uncovered[r] > 0
    IN  SelectSeq(rows, exact)

\* the queue without the test that something of the row is still uncovered
hyper_queue_covered(Is, X_gt, Xu) ==
    LET covered == [r \in 0..(m - 1) |-> row_count(Is, X_gt, r)]
        uncovered == [r \in 0..(m - 1) |-> row_count(Is, Xu, r)]
        idx == Reverse(argsort([i \in 1..m |-> <<uncovered[i - 1], 1>>]))
        rows == [i \in 1..m |-> idx[i] - 1]
        exact(r) == covered[r] = Cardinality(Is)
    IN  SelectSeq(rows, exact)

\* the rows that support Is and still have something uncovered, by
\* descending uncovered count
hyper_queue(Is, X_gt, Xu) ==
    LET covered == [r \in 0..(m - 1) |-> row_count(Is, X_gt, r)]
        uncovered == [r \in 0..(m - 1) |-> row_count(Is, Xu, r)]
        idx == Reverse(argsort([i \in 1..m |-> <<uncovered[i - 1], 1>>]))
        rows == [i \in 1..m |-> idx[i] - 1]
        exact(r) == covered[r] = Cardinality(Is) /\ uncovered[r] > 0
    IN  SelectSeq(rows, exact)

find_hyper(Is, X_gt, Xu) ==
    LET queue == hyper_queue(Is, X_gt, Xu)
    IN  IF Len(queue) = 0 THEN [T |-> <<>>, c |-> Inf]
        ELSE grow(<<Head(queue)>>, Tail(queue),
                  cost(<<Head(queue)>>, Is, Xu), Is, Xu)

----------------------------------------------------------------------------
(* Hyper.init_itemsets, Hyper.init_transactions, Hyper.sort_by_cost *)

support(Is, Xm) == Cardinality({r \in 0..(m - 1) : row_count(Is, Xm, r) = Cardinality(Is)})

Min(S) == CHOOSE x \in S : \A y \in S : x <= y

\* the order apriori lists its itemsets in: by size, then lexicographic
itemset_before(A, B) ==
    \/ Cardinality(A) < Cardinality(B)
    \/ /\ Cardinality(A) = Cardinality(B)
       /\ A # B
       /\ Min((A \ B) \cup (B \ A)) \in A

RECURSIVE apriori_list(_)
apriori_list(S) ==
    IF S = {} THEN <<>>
    ELSE LET A == CHOOSE A \in S : \A B \in S \ {A} : itemset_before(A, B)
         IN  <<A>> \o apriori_list(S \ {A})

\* apriori(X_df, min_support) without the singletons (line 50)
frequent_itemsets(Xm, cnt) ==
    {Is \in SUBSET (0..(n - 1)) : Cardinality(Is) > 1 /\ support(Is, Xm) >= cnt}

init_itemsets(Xm, cnt) ==
    [i \in 1..n |-> {i - 1}] \o apriori_list(frequent_itemsets(Xm, cnt))

\* the lists after the loop of init_transactions, from position i of Is on
RECURSIVE init_transactions(_, _)
init_transactions(Is, Xm) ==
    IF Len(Is) = 0 THEN [I |-> <<>>, T |-> <<>>, c |-> <<>>]
    ELSE LET h == find_hyper(Head(Is), Xm, Xm)
             rest == init_transactions(Tail(Is), Xm)
         IN  IF h.T = <<>> THEN rest
             ELSE [I |-> <<Head(Is)>> \o rest.I,
                   T |-> <<h.T>> \o rest.T,
                   c |-> <<h.c>> \o rest.c]

permute(s, order) == [i \in 1..Len(order) |-> s[order[i]]]

----------------------------------------------------------------------------
(* The inputs *)

Cells(rows, cols) == (0..(rows - 1)) \X (0..(cols - 1))

\* two disjoint all-ones 3x3 blocks in a 6x6 matrix
Block6 == {cell \in Cells(6, 6) : (cell[1] < 3) = (cell[2] < 3)}

\* rows 0-1 are {0,1,3}, row 2 is {0,1,2,3}, rows 3-4 are {0,1,2}
Stair == {cell \in Cells(5, 4) : \/ cell[2] \in {0, 1}
                                  \/ (cell[2] = 2 /\ cell[1] >= 2)
                                  \/ (cell[2] = 3 /\ cell[1] <= 2)}

HyperShapes == {s \in (1..MaxM) \X (1..MaxN) : s[1] * s[2] <= MaxCells}

HyperInputs ==
    {[m |-> 6, n |-> 6, X |-> Block6], [m |-> 5, n |-> 4, X |-> Stair]}
    \cup UNION {{[m |-> s[1], n |-> s[2], X |-> X] : X \in SUBSET Cells(s[1], s[2])}
                   : s \in HyperShapes}

\* the variables of BinaryMFPenalty while another model runs
PenIdle ==
    /\ W = {}
    /\ reg = 0 /\ reg_growth = 0 /\ tol = 0 /\ max_iter = 0
    /\ pen_n_iter = 0
    /\ is_improving = FALSE
    /\ reg_error_old = 0 /\ diff = 0
    /\ terminal = "none"
    /\ reg_init = 0
    /\ U_pre = <<>> /\ V_pre = <<>>
    /\ U_es = <<>> /\ V_es = <<>>
    /\ k_arg = -1

\* the variables of AssoOpt while Hyper runs
AssoIdle ==
    /\ w = <<0, 1>>
    /\ results = <<>>
    /\ pending = {}
    /\ i_row = 0
    /\ X_pd = {}
    /\ U0 = <<>> /\ V0 = <<>>

InitHyper ==
    /\ AssoIdle
    /\ PenIdle
    /\ \E inp \in HyperInputs :
          /\ m = inp.m
          /\ n = inp.n
          /\ X_train = inp.X
          /\ min_count \in 1..inp.m
    /\ pc = "init_model"
    /\ I = <<>> /\ T = <<>> /\ c = <<>>
    /\ X_uncovered = {}
    /\ T_final = <<>> /\ I_final = <<>>
    /\ U = <<>> /\ V = <<>> /\ has_UV = FALSE
    /\ k = 0 /\ self_k = -1
    /\ it = 0 /\ L = 0 /\ n_iter = 0
    /\ err = "none"
    /\ emptied = {} /\ recalled = {}

----------------------------------------------------------------------------
(* Hyper.init_model and Hyper._fit *)

\* find_hyper on the head of the list, with the bookkeeping of the calls
call_head(res) ==
    /\ emptied' = IF res.T = <<>> THEN emptied \cup {I[1]} ELSE emptied
    /\ recalled' = IF I[1] \in emptied THEN recalled \cup {I[1]} ELSE recalled

raise(e) ==
    /\ err' = e
    /\ pc' = "error"

\* lines 33-39
init_model ==
    /\ pc = "init_model"
    /\ LET Is == init_itemsets(X_train, min_count)
           r == init_transactions(Is, X_train)
           order == argsort(r.c)
       IN  /\ I' = permute(r.I, order)
           /\ T' = permute(r.T, order)
           /\ c' = permute(r.c, order)
           /\ emptied' = Range(Is) \ Range(r.I)
    /\ pc' = "fit"
    /\ UNCHANGED <<not_hyper, m, n, X_train, min_count, X_uncovered, T_final, I_final, U, V,
                   has_UV, k, self_k, it, L, n_iter, err, recalled>>

\* lines 93-97
fit_begin ==
    /\ pc = "fit"
    /\ T_final' = <<>> /\ I_final' = <<>>
    /\ X_uncovered' = X_train
    /\ k' = 0
    /\ L' = Len(I)
    /\ it' = 0
    /\ pc' = "for"
    /\ UNCHANGED <<not_hyper, m, n, X_train, min_count, I, T, c, U, V, has_UV, self_k,
                   n_iter, err, emptied, recalled>>

\* line 98, the range is used up
for_end ==
    /\ pc = "for"
    /\ it >= L
    /\ pc' = "finish"
    /\ UNCHANGED <<not_hyper, m, n, X_train, min_count, I, T, c, X_uncovered, T_final, I_final,
                   U, V, has_UV, k, self_k, it, L, n_iter, err, emptied, recalled>>

\* lines 98-99
for_head ==
    /\ pc = "for"
    /\ it < L
    /\ IF Len(I) = 0
       THEN /\ raise("IndexError")
            /\ UNCHANGED <<T, c, emptied, recalled>>
       ELSE LET h == find_hyper(I[1], X_train, X_uncovered)
            IN  /\ T' = [T EXCEPT ![1] = h.T]
                /\ c' = [c EXCEPT ![1] = h.c]
                /\ call_head(h)
                /\ pc' = "pop"
                /\ err' = err
    /\ UNCHANGED <<not_hyper, m, n, X_train, min_count, I, X_uncovered, T_final, I_final,
                   U, V, has_UV, k, self_k, it, L, n_iter>>

\* lines 100-103, one turn of the while loop
pop_empty ==
    /\ pc = "pop"
    /\ IF Len(T) = 0
       THEN /\ raise("IndexError")
            /\ UNCHANGED <<I, T, c>>
       ELSE /\ T[1] = <<>>
            /\ T' = Tail(T)
            /\ I' = Tail(I)
            /\ c' = Tail(c)
            /\ UNCHANGED <<pc, err>>
    /\ UNCHANGED <<not_hyper, m, n, X_train, min_count, X_uncovered, T_final, I_final,
                   U, V, has_UV, k, self_k, it, L, n_iter, emptied, recalled>>

\* lines 100 and 106: the while loop ends
pop_done ==
    /\ pc = "pop"
    /\ Len(T) > 0
    /\ T[1] # <<>>
    /\ n_iter' = 0
    /\ pc' = "resort"
    /\ UNCHANGED <<not_hyper, m, n, X_train, min_count, I, T, c, X_uncovered, T_final, I_final,
                   U, V, has_UV, k, self_k, it, L, err, emptied, recalled>>

\* lines 107-110, one turn of the while loop
resort ==
    /\ pc = "resort"
    /\ IF Len(c) < 2
       THEN /\ raise("IndexError")
            /\ UNCHANGED <<I, T, c, n_iter, emptied, recalled>>
       ELSE /\ Gt(c[1], c[2])
            /\ LET order == argsort(c)
                   I1 == permute(I, order)
                   T1 == permute(T, order)
                   c1 == permute(c, order)
                   h == find_hyper(I1[1], X_train, X_uncovered)
               IN  /\ I' = I1
                   /\ T' = [T1 EXCEPT ![1] = h.T]
                   /\ c' = [c1 EXCEPT ![1] = h.c]
                   /\ emptied' = IF h.T = <<>> THEN emptied \cup {I1[1]} ELSE emptied
                   /\ recalled' = IF I1[1] \in emptied THEN recalled \cup {I1[1]}
                                  ELSE recalled
            /\ n_iter' = n_iter + 1
            /\ UNCHANGED <<pc, err>>
    /\ UNCHANGED <<not_hyper, m, n, X_train, min_count, X_uncovered, T_final, I_final,
                   U, V, has_UV, k, self_k, it, L>>

\* the boolean product of one column of U and one column of V
pattern(Tr, Is) == Range(Tr) \X Is

\* lines 107 and 112-127: the head is accepted
accept ==
    /\ pc = "resort"
    /\ Len(c) >= 2
    /\ ~Gt(c[1], c[2])
    /\ T_final' = Append(T_final, T[1])
    /\ I_final' = Append(I_final, I[1])
    /\ U' = IF k = 0 THEN <<Range(T[1])>> ELSE Append(U, Range(T[1]))
    /\ V' = IF k = 0 THEN <<I[1]>> ELSE Append(V, I[1])
    /\ has_UV' = TRUE
    /\ X_uncovered' = X_uncovered \ pattern(T[1], I[1])
    /\ pc' = "accepted"
    /\ UNCHANGED <<not_hyper, m, n, X_train, min_count, I, T, c, k, self_k, it, L, n_iter,
                   err, emptied, recalled>>

\* lines 133-134
break ==
    /\ pc = "accepted"
    /\ X_uncovered = {}
    /\ pc' = "finish"
    /\ UNCHANGED <<not_hyper, m, n, X_train, min_count, I, T, c, X_uncovered, T_final, I_final,
                   U, V, has_UV, k, self_k, it, L, n_iter, err, emptied, recalled>>

\* lines 136-138
requeue ==
    /\ pc = "accepted"
    /\ X_uncovered # {}
    /\ LET h == find_hyper(I[1], X_train, X_uncovered)
           T1 == [T EXCEPT ![1] = h.T]
           c1 == [c EXCEPT ![1] = h.c]
           order == argsort(c1)
       IN  /\ I' = permute(I, order)
           /\ T' = permute(T1, order)
           /\ c' = permute(c1, order)
           /\ call_head(h)
    /\ k' = k + 1
    /\ it' = it + 1
    /\ pc' = "for"
    /\ UNCHANGED <<not_hyper, m, n, X_train, min_count, X_uncovered, T_final, I_final,
                   U, V, has_UV, self_k, L, n_iter, err>>

\* lines 140-142
finish ==
    /\ pc = "finish"
    /\ IF has_UV
       THEN /\ self_k' = Len(U)
            /\ T' = T_final
            /\ I' = I_final
            /\ pc' = "done"
            /\ err' = err
       ELSE /\ raise("AttributeError")
            /\ UNCHANGED <<self_k, T, I>>
    /\ UNCHANGED <<not_hyper, m, n, X_train, min_count, c, X_uncovered, T_final, I_final,
                   U, V, has_UV, k, it, L, n_iter, emptied, recalled>>

NextHyper ==
    \/ init_model
    \/ fit_begin
    \/ for_end
    \/ for_head
    \/ pop_empty
    \/ pop_done
    \/ resort
    \/ accept
    \/ break
    \/ requeue
    \/ finish

SpecHyper == InitHyper /\ [][NextHyper]_vars

----------------------------------------------------------------------------
(* Properties of Hyper *)

\* matmul(U, V.T, boolean=True): the boolean product of the factors
bool_product(Uc, Vc) == UNION {Uc[f] \X Vc[f] : f \in DOMAIN Uc}

InLoop == pc \in {"for", "pop", "resort", "accepted"}

\* the while loop of line 107 is about to end: the head gets accepted
Accepting == pc = "resort" /\ Len(c) >= 2 /\ ~Gt(c[1], c[2])

\* C1: after every accepted pattern the factors are an exact partial cover:
\* every cell of every accepted column pair is 1 in X_train, the boolean
\* product of U and V has no 1 where X_train has a 0, and X_uncovered is
\* X_train without the cells of that product.
C1_ExactPartialCover ==
    has_UV =>
        /\ Len(U) = Len(V)
        /\ \A f \in DOMAIN U : \A r \in U[f] : \A col \in V[f] : <<r, col>> \in X_train
        /\ bool_product(U, V) \subseteq X_train
        /\ X_uncovered = X_train \ bool_product(U, V)

C1_Witness ==
    /\ pc = "accepted"
    /\ Len(U) >= 2
    /\ X_uncovered # {}
    /\ \E f \in DOMAIN U : Cardinality(U[f]) >= 2 /\ Cardinality(V[f]) >= 2

\* C2: whenever a pattern is accepted, the cost of the accepted pair against
\* the current residual is at most the cost find_hyper would give every other
\* candidate itemset against the same residual.
C2_AcceptedIsCheapest ==
    Accepting =>
        \A j \in 2..Len(I) :
            Le(cost(T[1], I[1], X_uncovered), find_hyper(I[j], X_train, X_uncovered).c)

RECURSIVE prefix_len(_, _, _, _)
prefix_len(q, j, Is, Xu) ==
    IF j >= Len(q) THEN j
    ELSE IF Le(cost(SubSeq(q, 1, j + 1), Is, Xu), cost(SubSeq(q, 1, j), Is, Xu))
         THEN prefix_len(q, j + 1, Is, Xu)
         ELSE j

\* the longest prefix of the queue along which the cost does not increase
longest_prefix(Is, X_gt, Xu) ==
    LET q == hyper_queue(Is, X_gt, Xu)
    IN  IF Len(q) = 0 THEN <<>> ELSE SubSeq(q, 1, prefix_len(q, 1, Is, Xu))

\* C3: find_hyper stops at the first row whose addition strictly increases
\* the cost: for every candidate itemset and every residual of the run it
\* returns the longest prefix of the sorted qualifying rows along which the
\* cost is non-increasing, with the cost of that prefix.
C3_LongestNonIncreasingPrefix ==
    InLoop =>
        \A j \in DOMAIN I :
            LET h == find_hyper(I[j], X_train, X_uncovered)
                p == longest_prefix(I[j], X_train, X_uncovered)
            IN  /\ h.T = p
                /\ (p # <<>> => h.c = cost(p, I[j], X_uncovered))

\* C4: for every binary X_train, _fit ends without raising an error and
\* returns the factors accepted so far, with k the number of columns of U
\* and V.
C4_NeverRaises ==
    /\ pc # "error"
    /\ err = "none"
    /\ (pc = "done" => has_UV /\ self_k = Len(U) /\ self_k = Len(V))

\* C5 as stated: once find_hyper has returned [] for an itemset, the itemset
\* is no longer in the candidate list I (checked between the statements of
\* the loop, after the pops of lines 100-103), and find_hyper is never
\* called on it again.
C5_EmptiedIsRemoved ==
    /\ recalled = {}
    /\ (pc \in {"for", "resort", "accepted"} =>
            \A j \in DOMAIN I : I[j] \notin emptied)

\* C5 as amended: once find_hyper has returned [] for an itemset, the itemset
\* is either removed from the lists or stays in them with an empty
\* transaction and infinite cost; find_hyper is never called on it again and
\* it is never accepted.
C5_EmptiedNeverReconsidered ==
    /\ recalled = {}
    /\ (InLoop => \A j \in DOMAIN I :
                      I[j] \in emptied => T[j] = <<>> /\ c[j] = <<1, 0>>)
    /\ (Accepting => I[1] \notin emptied)

C5_Witness ==
    /\ pc = "resort"
    /\ it >= 1
    /\ \E j \in DOMAIN I : I[j] \in emptied
    /\ \E j \in DOMAIN I : I[j] \notin emptied

IsBlock6 == m = 6 /\ n = 6 /\ X_train = Block6

TwoExactColumns ==
    /\ pc = "done"
    /\ self_k = 2
    /\ Len(U) = 2 /\ Len(V) = 2
    /\ X_uncovered = {}
    /\ bool_product(U, V) = X_train

\* C6 as stated: on the 6x6 union of two disjoint all-ones 3x3 blocks, for
\* whatever min_support the itemsets are mined with, _fit ends with exactly
\* 2 columns, an all-zero residual and the boolean product of U and V equal
\* to X_train.
C6_BlocksAnySupport ==
    (IsBlock6 /\ pc \in {"done", "error"}) => TwoExactColumns

\* C6 as amended: the same when min_support is at most 1/2, so that the
\* column sets of the two blocks are among the mined itemsets.
C6_BlocksMined ==
    (IsBlock6 /\ 2 * min_count <= m /\ pc \in {"done", "error"}) => TwoExactColumns

C6_Witness == IsBlock6 /\ 2 * min_count <= m /\ pc = "done" /\ self_k = 2

\* the non-empty sets of columns
Itemsets == (SUBSET (0..(n - 1))) \ {{}}

\* the rows with covered == |I| and uncovered > 0
qualifying(Is, X_gt, Xu) ==
    {r \in 0..(m - 1) : /\ \A col \in Is : <<r, col>> \in X_gt
                        /\ \E col \in Is : <<r, col>> \in Xu}

\* C15: for every itemset and every residual of the run, find_hyper returns
\* the empty transaction with infinite cost exactly when no row qualifies;
\* otherwise every returned row qualifies and appears once, the denominator
\* of the cost is at least |T| >= 1, and the cost is finite and positive.
C15_QualifyingRowsOnly ==
    InLoop =>
        \A Is \in Itemsets :
            LET h == find_hyper(Is, X_train, X_uncovered)
                q == qualifying(Is, X_train, X_uncovered)
            IN  /\ (h.T = <<>>) = (q = {})
                /\ (h.T = <<>> => h.c = <<1, 0>>)
                /\ (h.T # <<>> =>
                        /\ Range(h.T) \subseteq q
                        /\ Cardinality(Range(h.T)) = Len(h.T)
                        /\ cover_sum(h.T, Is, X_uncovered) >= Len(h.T)
                        /\ h.c = <<Len(h.T) + Cardinality(Is),
                                   cover_sum(h.T, Is, X_uncovered)>>
                        /\ h.c[1] > 0 /\ h.c[2] > 0)

C15_Witness ==
    /\ pc = "resort"
    /\ it >= 1
    /\ \E Is \in Itemsets : find_hyper(Is, X_train, X_uncovered).T = <<>>
    /\ \E Is \in Itemsets :
          LET h == find_hyper(Is, X_train, X_uncovered)
          IN  Len(h.T) >= 2 /\ Cardinality(Is) >= 2 /\ h.c[2] > Len(h.T)

\* C16: every accepted pattern uses the transaction find_hyper gives for the
\* residual as it is when the pattern is accepted, and covers at least one
\* cell that is still uncovered, so that the residual loses a cell with
\* every column.
C16_AcceptedCoversNew ==
    Accepting =>
        /\ T[1] = find_hyper(I[1], X_train, X_uncovered).T
        /\ cover_sum(T[1], I[1], X_uncovered) > 0



----------------------------------------------------------------------------
(* AssoOpt: the exhaustive search over each row of U *)

\* AssoOpt: X_train has at most MaxRows rows, V at most MaxK columns, X_train
\* and V at most MaxBits entries together, and w is a multiple of 1 / WSteps
MaxRows == 2
MaxK == 2
MaxBits == 8
WSteps == 3

\* bin(i)[2:]: the binary digits of i, most significant first, "0" for 0
RECURSIVE bin(_)
bin(i) == IF i < 2 THEN <<i>> ELSE Append(bin(i \div 2), i % 2)

\* str.zfill: zeros on the left up to the width, nothing cut off
zfill(s, width) ==
    IF Len(s) >= width THEN s ELSE [j \in 1..(width - Len(s)) |-> 0] \o s

\* the digits least significant first
int2bin_reversed(i, bits) == Reverse(zfill(bin(i), bits))

\* the 1 x len(digits) matrix of the digits
int2bin(i, bits) == zfill(bin(i), bits)

\* matmul(U, self.V.T, sparse=True, boolean=True) for a one-row U: the
\* product thresholded at > 0; the shapes must agree
matmul_row(u, Vc) ==
    IF Len(u) # Len(Vc) THEN [ok |-> FALSE, row |-> {}]
    ELSE [ok |-> TRUE, row |-> UNION {Vc[f] : f \in {g \in DOMAIN Vc : u[g] = 1}}]

Max(a, b) == IF a >= b THEN a ELSE b

\* cover(gt, pd, w) for one row of n cells:
\*   (1 - w) * TP / max(1, positives of gt) - w * FP / max(1, cells)
cover(gt, pd, wt) ==
    LET TP == Cardinality(gt \cap pd)
        FP == Cardinality(pd \ gt)
        P == Max(1, Cardinality(gt))
        cells == Max(1, n)
    IN  <<(wt[2] - wt[1]) * TP * cells - wt[1] * FP * P, wt[2] * P * cells>>

\* self.X_train[i, :]
X_row(i) == {col \in 0..(n - 1) : <<i, col>> \in X_train}

RECURSIVE argmax_last_from(_, _, _)
argmax_last_from(scores, j, best) ==
    IF j > Len(scores) THEN best
    ELSE argmax_last_from(scores, j + 1, IF Le(scores[best], scores[j]) THEN j ELSE best)

\* the last position of the maximum
argmax_last(scores) == argmax_last_from(scores, 2, 1)

RECURSIVE argmax_from(_, _, _)
argmax_from(scores, j, best) ==
    IF j > Len(scores) THEN best
    ELSE argmax_from(scores, j + 1, IF Gt(scores[j], scores[best]) THEN j ELSE best)

\* np.argmax: the first position of the maximum
argmax(scores) == argmax_from(scores, 2, 1)

RECURSIVE pow2(_)
pow2(e) == IF e = 0 THEN 1 ELSE 2 * pow2(e - 1)

\* lines 79-87; ok is FALSE when matmul raises
set_optimal_row(i) ==
    LET trials == pow2(self_k)
        X_gt == X_row(i)
        prod == [j \in 1..trials |-> matmul_row(int2bin(j - 1, self_k), V)]
        scores == [j \in 1..trials |-> cover(X_gt, prod[j].row, w)]
    IN  IF \E j \in 1..trials : ~prod[j].ok THEN [ok |-> FALSE, idx |-> 0]
        ELSE [ok |-> TRUE, idx |-> argmax(scores) - 1]

\* results in the order the tasks return in
p_map_slot_unordered(i, done) == done

\* p_map returns the results in the order of its input, range(self.m)
p_map_slot(i, done) == i

\* self.U[i] = bits
set_row(Uc, i, bits) ==
    [f \in DOMAIN Uc |-> IF bits[f] = 1 THEN Uc[f] \cup {i} ELSE Uc[f] \ {i}]

AssoShapes ==
    {s \in (1..MaxRows) \X (1..MaxBits) \X (0..MaxK) :
        s[2] * (s[1] + s[3]) <= MaxBits}

\* the variables of Hyper while AssoOpt runs
HyperIdle ==
    /\ min_count = 1
    /\ I = <<>> /\ T = <<>> /\ c = <<>>
    /\ X_uncovered = {}
    /\ T_final = <<>> /\ I_final = <<>>
    /\ k = 0 /\ it = 0 /\ L = 0 /\ n_iter = 0
    /\ emptied = {} /\ recalled = {}

\* AssoOpt(model, w) after load_dataset: k, U, V come from the model
InitAsso ==
    /\ HyperIdle
    /\ PenIdle
    /\ \E s \in AssoShapes :
          /\ m = s[1]
          /\ n = s[2]
          /\ self_k = s[3]
          /\ X_train \in SUBSET Cells(s[1], s[2])
          /\ V \in [1..s[3] -> SUBSET (0..(s[2] - 1))]
          /\ U \in {[f \in 1..s[3] |-> {}], [f \in 1..s[3] |-> 0..(s[1] - 1)]}
          /\ results = [i \in 0..(s[1] - 1) |-> -1]
          /\ pending = 0..(s[1] - 1)
    /\ w \in {<<a, WSteps>> : a \in 0..WSteps}
    /\ has_UV = TRUE
    /\ U0 = U /\ V0 = V
    /\ i_row = 0
    /\ X_pd = {}
    /\ pc = "p_map"
    /\ err = "none"

\* line 63: one of the row tasks runs set_optimal_row(i) and returns
row_task(i) ==
    /\ pc = "p_map"
    /\ i \in pending
    /\ LET r == set_optimal_row(i)
       IN  IF r.ok
           THEN /\ results' = [results EXCEPT ![p_map_slot(i, m - Cardinality(pending))] = r.idx]
                /\ pending' = pending \ {i}
                /\ UNCHANGED <<pc, err>>
           ELSE /\ err' = "ValueError"
                /\ pc' = "error"
                /\ UNCHANGED <<results, pending>>
    /\ UNCHANGED <<not_asso, m, n, X_train, U, V, has_UV, self_k, w, i_row, X_pd, U0, V0>>

\* line 63: p_map returns once every task has
p_map_return ==
    /\ pc = "p_map"
    /\ pending = {}
    /\ i_row' = 0
    /\ pc' = "assign"
    /\ UNCHANGED <<not_asso, m, n, X_train, U, V, has_UV, self_k, err, w, results,
                   pending, X_pd, U0, V0>>

\* lines 68-69, one turn of the loop
assign_row ==
    /\ pc = "assign"
    /\ i_row < m
    /\ U' = set_row(U, i_row, int2bin(results[i_row], self_k))
    /\ i_row' = i_row + 1
    /\ UNCHANGED <<not_asso, m, n, X_train, V, has_UV, self_k, pc, err, w, results,
                   pending, X_pd, U0, V0>>

\* line 71, BaseModel.predict
predict ==
    /\ pc = "assign"
    /\ i_row >= m
    /\ X_pd' = bool_product(U, V)
    /\ pc' = "done"
    /\ UNCHANGED <<not_asso, m, n, X_train, U, V, has_UV, self_k, err, w, results,
                   pending, i_row, U0, V0>>

NextAsso ==
    \/ \E i \in 0..(m - 1) : row_task(i)
    \/ p_map_return
    \/ assign_row
    \/ predict

SpecAsso == InitAsso /\ [][NextAsso]_vars

----------------------------------------------------------------------------
(* Properties of AssoOpt *)

Rows == 0..(m - 1)

Candidates == 0..(pow2(self_k) - 1)

\* bit f of j written with self_k bits, bit 1 the most significant
bit(j, f) == (j \div pow2(self_k - f)) % 2

\* the row the bit-vector of j predicts: the union of the columns of V it
\* activates
candidate_row(j) == UNION {V[f] : f \in {g \in 1..self_k : bit(j, g) = 1}}

score_of(j, i) == cover(X_row(i), candidate_row(j), w)

\* the smallest integer among those of maximum score for row i
first_best(i) ==
    CHOOSE j \in Candidates :
        \A j2 \in Candidates :
            /\ Le(score_of(j2, i), score_of(j, i))
            /\ (j2 < j => Lt(score_of(j2, i), score_of(j, i)))

\* row i of U as a bit-vector
U_row(Uc, i) == [f \in 1..self_k |-> IF i \in Uc[f] THEN 1 ELSE 0]

\* C7: for k >= 1, int2bin encodes every j in 0..2^k-1 as a length-k vector,
\* most significant bit first, and the integer set_optimal_row returns for a
\* row attains the maximum coverage score over all 2^k candidates and is the
\* smallest integer that does.
C7_FirstArgmax ==
    self_k >= 1 =>
        /\ \A j \in Candidates : int2bin(j, self_k) = [f \in 1..self_k |-> bit(j, f)]
        /\ \A i \in Rows :
              results[i] # -1 =>
                  /\ results[i] \in Candidates
                  /\ \A j \in Candidates :
                        /\ Le(score_of(j, i), score_of(results[i], i))
                        /\ (j < results[i] => Lt(score_of(j, i), score_of(results[i], i)))

C7_Witness ==
    /\ self_k >= 2
    /\ \E i \in Rows :
          /\ results[i] >= 1
          /\ \E j \in Candidates :
                /\ j > results[i]
                /\ ~Lt(score_of(j, i), score_of(results[i], i))

\* C8: with k = 0 the per-row search evaluates the one empty bit-vector
\* (int2bin(0, 0) has 0 entries, as V has 0 columns) and ends without error.
C8_KZeroCompletes ==
    self_k = 0 =>
        /\ pc # "error"
        /\ err = "none"
        /\ (pending # Rows =>
                /\ Candidates = {0}
                /\ Len(int2bin(0, self_k)) = 0
                /\ \A i \in Rows \ pending : results[i] = 0)

\* the integer whose bit-vector activates column f of V alone
one_hot(f) == pow2(self_k - f)

PatternSelected(i, f) ==
    /\ results[i] = one_hot(f)
    /\ \A j \in Candidates \ {one_hot(f)} : Lt(score_of(j, i), score_of(one_hot(f), i))

\* C9 as stated: for k = 2, any V and any w in [0, 1], a row that equals a
\* column of V gets the bit-vector that activates that column alone, and its
\* score is strictly greater than the scores of the other three candidates.
C9_AnyWeightAnyV ==
    self_k = 2 =>
        \A i \in Rows :
            (results[i] # -1 /\ \E f \in 1..2 : X_row(i) = V[f]) =>
                \E f \in 1..2 : X_row(i) = V[f] /\ PatternSelected(i, f)

\* C9 as amended: the same provided 0 < w < 1, the row is not all zero, and
\* the other column of V has a 1 where the row has a 0.
C9_SeparatedPattern ==
    self_k = 2 =>
        \A i \in Rows : \A f \in 1..2 :
            ( /\ results[i] # -1
              /\ X_row(i) = V[f]
              /\ X_row(i) # {}
              /\ ~(V[3 - f] \subseteq X_row(i))
              /\ 0 < w[1] /\ w[1] < w[2] ) => PatternSelected(i, f)

C9_Witness ==
    /\ self_k = 2
    /\ 0 < w[1] /\ w[1] < w[2]
    /\ \E i \in Rows :
          /\ results[i] = one_hot(1)
          /\ X_row(i) = V[1]
          /\ X_row(i) # {}
          /\ ~(V[2] \subseteq X_row(i))
          /\ V[2] \cap X_row(i) # {}

----------------------------------------------------------------------------
(* BinaryMFPenalty: floats *)

\* A float is modelled in a narrow format: the integer v >= 0 stands for the
\* value v / Scale, FloatMax is the largest finite value, and a result above
\* it is inf.  Inf_ov and NaN_ov are the inf and the nan that have an
\* overflow among their causes, Inf_dz and NaN_dz those that come from a
\* division by zero alone; the program cannot tell them apart.
Scale == 16
FloatMax == 4096

Inf_ov == -1
NaN_ov == -2
Inf_dz == -3
NaN_dz == -4

\* np.finfo(np.float64).eps: the step of the format at 1.0
eps == 1

fin(x) == x >= 0

is_nan(x) == x \in {NaN_ov, NaN_dz}

is_inf(x) == x \in {Inf_ov, Inf_dz}

by_overflow(x) == x \in {Inf_ov, NaN_ov}

special(nan, a, b) ==
    IF by_overflow(a) \/ by_overflow(b)
    THEN (IF nan THEN NaN_ov ELSE Inf_ov)
    ELSE (IF nan THEN NaN_dz ELSE Inf_dz)

overflow(v) == IF v > FloatMax THEN Inf_ov ELSE v

\* a / b rounded to the nearest integer
round_div(a, b) == (2 * a + b) \div (2 * b)

\* An operation takes the values of its operands: x and y below are a and b,
\* evaluated once.
fadd(a, b) ==
    LET add(x, y) ==
            IF fin(x) /\ fin(y) THEN overflow(x + y)
            ELSE special(is_nan(x) \/ is_nan(y), x, y)
    IN  CHOOSE r \in {add(x, y) : x \in {a}, y \in {b}} : TRUE

fmul(a, b) ==
    LET mul(x, y) ==
            IF fin(x) /\ fin(y) THEN overflow(round_div(x * y, Scale))
            ELSE special(is_nan(x) \/ is_nan(y) \/ x = 0 \/ y = 0, x, y)
    IN  CHOOSE r \in {mul(x, y) : x \in {a}, y \in {b}} : TRUE

fdiv(a, b) ==
    LET div(x, y) ==
            IF fin(x) /\ fin(y)
            THEN IF y = 0 THEN (IF x = 0 THEN NaN_dz ELSE Inf_dz)
                 ELSE overflow(round_div(x * Scale, y))
            ELSE IF fin(x) /\ is_inf(y) THEN 0
            ELSE special(is_nan(x) \/ is_nan(y) \/ (is_inf(x) /\ is_inf(y)), x, y)
    IN  CHOOSE r \in {div(x, y) : x \in {a}, y \in {b}} : TRUE

\* abs(a - b)
fabsdiff(a, b) ==
    LET absdiff(x, y) ==
            IF fin(x) /\ fin(y) THEN (IF x >= y THEN x - y ELSE y - x)
            ELSE special(is_nan(x) \/ is_nan(y) \/ (is_inf(x) /\ is_inf(y)), x, y)
    IN  CHOOSE r \in {absdiff(x, y) : x \in {a}, y \in {b}} : TRUE

\* a < b
flt(a, b) ==
    /\ ~is_nan(a) /\ ~is_nan(b)
    /\ fin(a)
    /\ (is_inf(b) \/ a < b)

\* the float of a small integer
float(i) == i * Scale

\* the sum of s[1], ..., s[hi], left to right
RECURSIVE fsum(_, _)
fsum(s, hi) == IF hi = 0 THEN 0 ELSE fadd(fsum(s, hi - 1), s[hi])

\* utils.multiply and utils.power, entry by entry
multiply(a, b) == fmul(a, b)

square(x) == fmul(x, x)

cube(x) == fmul(fmul(x, x), x)

----------------------------------------------------------------------------
(* BinaryMFPenalty.update and BinaryMFPenalty.error *)

\* the number of columns of a factor
cols(Mc) == Len(Mc[1])

\* X_train[i, j] and W[i, j] as floats
X_at(i, j) == IF <<i - 1, j - 1>> \in X_train THEN float(1) ELSE 0

W_at(i, j) == IF <<i - 1, j - 1>> \in W THEN float(1) ELSE 0

\* (self.U @ self.V.T)[i, j]
UVt(Uc, Vc, i, j) ==
    fsum([f \in 1..cols(Uc) |-> fmul(Uc[i][f], Vc[j][f])], cols(Uc))

\* 3 * self.reg * power(x, 2)
num_reg(r, x) == fmul(fmul(float(3), r), square(x))

\* 2 * self.reg * power(x, 3) + self.reg * x
denom_reg(r, x) == fadd(fmul(fmul(float(2), r), cube(x)), fmul(r, x))

\* lines 109-110
num_V(Uc, Vc, r, j, f) ==
    fadd(fsum([i \in 1..m |-> fmul(multiply(W_at(i, j), X_at(i, j)), Uc[i][f])], m),
         num_reg(r, Vc[j][f]))

\* lines 112-113
denom_V(Uc, Vc, r, j, f) ==
    fadd(fsum([i \in 1..m |-> fmul(multiply(W_at(i, j), UVt(Uc, Vc, i, j)), Uc[i][f])], m),
         denom_reg(r, Vc[j][f]))

\* lines 119-120
num_U(Uc, Vc, r, i, f) ==
    fadd(fsum([j \in 1..n |-> fmul(multiply(W_at(i, j), X_at(i, j)), Vc[j][f])], n),
         num_reg(r, Uc[i][f]))

\* lines 121-122
denom_U(Uc, Vc, r, i, f) ==
    fadd(fsum([j \in 1..n |-> fmul(multiply(W_at(i, j), UVt(Uc, Vc, i, j)), Vc[j][f])], n),
         denom_reg(r, Uc[i][f]))

\* denom[denom == 0] = np.finfo(np.float64).eps
floor_eps(d) == IF d = 0 THEN eps ELSE d

\* multiply(x, num / denom)
rescale(x, num, denom) == multiply(x, fdiv(num, denom))

\* lines 109-116
update_V(Uc, Vc, r) ==
    [j \in 1..n |-> [f \in 1..cols(Vc) |->
        rescale(Vc[j][f], num_V(Uc, Vc, r, j, f), floor_eps(denom_V(Uc, Vc, r, j, f)))]]

\* lines 119-125
update_U(Uc, Vc, r) ==
    [i \in 1..m |-> [f \in 1..cols(Uc) |->
        rescale(Uc[i][f], num_U(Uc, Vc, r, i, f), floor_eps(denom_U(Uc, Vc, r, i, f)))]]

\* x / 2, for 0.5 * x
half(x) == fdiv(x, float(2))

\* np.sum(power(power(M, 2) - M, 2)) of a factor with rows 1..rows
penalty_sum(Mc, rows) ==
    LET kc == cols(Mc)
        flat == [e \in 1..(rows * kc) |->
                    square(fabsdiff(square(Mc[((e - 1) \div kc) + 1][((e - 1) % kc) + 1]),
                                    Mc[((e - 1) \div kc) + 1][((e - 1) % kc) + 1]))]
    IN  fsum(flat, rows * kc)

\* lines 161-162: reg_error
reg_error(Uc, Vc) == fadd(half(penalty_sum(Uc, m)), half(penalty_sum(Vc, n)))

----------------------------------------------------------------------------
(* BinaryMFPenalty._fit *)

\* at most MaxIter for max_iter; X_train, U and V together have at most
\* PenCells entries
MaxIter == 2
PenCells == 5

\* the values an entry of the initial U and V is drawn from
Entries == {0, Scale \div 2, Scale}

Matrices(rows, kc) == [1..rows -> [1..kc -> Entries]]

PenShapes ==
    {s \in (1..PenCells) \X (1..PenCells) \X (1..PenCells) :
        s[1] * s[2] + (s[1] + s[2]) * s[3] <= PenCells}

\* W_option 'full' is all ones, 'mask' is the support of X_train
init_W(X, rows, columns) == {Cells(rows, columns), X}

\* BinaryMFPenalty(k, U, V, W, reg, reg_growth, tol, max_iter) after
\* load_dataset and init_model, on entry to _fit
InitPen ==
    /\ HyperIdle
    /\ AssoIdle
    /\ \E s \in PenShapes :
          /\ m = s[1] /\ n = s[2]
          /\ X_train \in SUBSET Cells(s[1], s[2])
          /\ W \in init_W(X_train, s[1], s[2])
          /\ U \in Matrices(s[1], s[3])
          /\ V \in Matrices(s[2], s[3])
          /\ self_k = s[3]
    /\ has_UV = TRUE
    /\ reg \in {Scale \div 2, 2 * Scale, FloatMax}
    /\ reg_init = reg
    /\ reg_growth \in {Scale \div 2, Scale, 3 * Scale}
    /\ tol \in {0, Scale \div 8}
    /\ max_iter \in 1..MaxIter
    /\ pen_n_iter = 0
    /\ is_improving = FALSE
    /\ reg_error_old = 0 /\ diff = 0
    /\ terminal = "none"
    /\ U_pre = U /\ V_pre = V
    /\ U_es = <<>> /\ V_es = <<>>
    /\ k_arg = -1
    /\ pc = "pen_fit"
    /\ err = "none"

\* lines 67-71
pen_fit_begin ==
    /\ pc = "pen_fit"
    /\ pen_n_iter' = 0
    /\ is_improving' = TRUE
    /\ reg_error_old' = reg_error(U, V)
    /\ pc' = "pen_while"
    /\ UNCHANGED <<m, n, X_train, U, V, has_UV, self_k, err, not_pen>>
    /\ UNCHANGED <<W, reg, reg_growth, tol, max_iter, diff, terminal, reg_init,
                   U_pre, V_pre, U_es, V_es, k_arg>>

\* the loop that never tests its condition
loop_continues_always(impr) == TRUE

\* while is_improving:
loop_continues(impr) == impr

\* lines 77-80: one more iteration, V is updated first and U with the new V
pen_update ==
    /\ pc = "pen_while"
    /\ loop_continues(is_improving)
    /\ pen_n_iter <= MaxIter
    /\ pen_n_iter' = pen_n_iter + 1
    /\ U_pre' = U /\ V_pre' = V
    /\ V' = update_V(U, V, reg)
    /\ U' = update_U(U, V', reg)
    /\ pc' = "pen_error"
    /\ UNCHANGED <<m, n, X_train, has_UV, self_k, err, not_pen>>
    /\ UNCHANGED <<W, reg, reg_growth, tol, max_iter, is_improving, reg_error_old,
                   diff, terminal, reg_init, U_es, V_es, k_arg>>

\* lines 83-85
pen_error ==
    /\ pc = "pen_error"
    /\ diff' = fabsdiff(reg_error_old, reg_error(U, V))
    /\ reg_error_old' = reg_error(U, V)
    /\ pc' = "pen_early_stop"
    /\ UNCHANGED <<m, n, X_train, U, V, has_UV, self_k, err, not_pen>>
    /\ UNCHANGED <<W, reg, reg_growth, tol, max_iter, pen_n_iter, is_improving,
                   terminal, reg_init, U_pre, V_pre, U_es, V_es, k_arg>>

\* the stop conditions of the early-stop predicate of the continuous models
stop_reason(d, t, ni, mi) ==
    IF flt(d, t) THEN "Converged"
    ELSE IF ni >= mi THEN "MaxIterReached"
    ELSE "none"

\* M[:, :kk]
leading(Mc, kk) ==
    [r \in DOMAIN Mc |-> SubSeq(Mc[r], 1, IF kk < Len(Mc[r]) THEN kk ELSE Len(Mc[r]))]

\* BaseModel.early_stop(msg, k): what it leaves in self.U, self.V, self.k
early_stop(Uc, Vc, kc, kk) ==
    IF kk # -1
    THEN [U |-> leading(Uc, kk), V |-> leading(Vc, kk), k |-> kc]
    ELSE [U |-> Uc, V |-> Vc, k |-> kc]

\* line 97, the predicate says stop or continue
pen_early_stop ==
    /\ pc = "pen_early_stop"
    /\ terminal' = stop_reason(diff, tol, pen_n_iter, max_iter)
    /\ is_improving' = (terminal' = "none")
    /\ pc' = "pen_reg"
    /\ UNCHANGED <<m, n, X_train, U, V, has_UV, self_k, err, not_pen>>
    /\ UNCHANGED <<W, reg, reg_growth, tol, max_iter, pen_n_iter, reg_error_old,
                   diff, reg_init, U_pre, V_pre, U_es, V_es, k_arg>>

\* line 97, the optimizer requests the stop itself, with a truncation or
\* without one
pen_early_stop_request ==
    /\ pc = "pen_early_stop"
    /\ \E kk \in -1..cols(U) :
          LET after == early_stop(U, V, self_k, kk)
          IN  /\ k_arg' = kk
              /\ U' = after.U
              /\ V' = after.V
              /\ self_k' = after.k
    /\ U_es' = U /\ V_es' = V
    /\ terminal' = "EarlyStopped"
    /\ is_improving' = FALSE
    /\ pc' = "pen_reg"
    /\ UNCHANGED <<m, n, X_train, has_UV, err, not_pen>>
    /\ UNCHANGED <<W, reg, reg_growth, tol, max_iter, pen_n_iter, reg_error_old,
                   diff, reg_init, U_pre, V_pre>>

\* reg multiplied only while the loop goes on
reg_step_if_improving(r, g, impr) == IF impr THEN fmul(r, g) ELSE r

\* self.reg *= self.reg_growth
reg_step(r, g, impr) == fmul(r, g)

\* line 100
pen_reg ==
    /\ pc = "pen_reg"
    /\ reg' = reg_step(reg, reg_growth, is_improving)
    /\ pc' = "pen_while"
    /\ UNCHANGED <<m, n, X_train, U, V, has_UV, self_k, err, not_pen>>
    /\ UNCHANGED <<W, reg_growth, tol, max_iter, pen_n_iter, is_improving,
                   reg_error_old, diff, terminal, reg_init, U_pre, V_pre, U_es,
                   V_es, k_arg>>

\* line 77, the loop condition is false: _fit returns
pen_return ==
    /\ pc = "pen_while"
    /\ ~loop_continues(is_improving)
    /\ pc' = "done"
    /\ UNCHANGED <<m, n, X_train, U, V, has_UV, self_k, err, not_pen, pen_only>>

NextPen ==
    \/ pen_fit_begin
    \/ pen_update
    \/ pen_error
    \/ pen_early_stop
    \/ pen_early_stop_request
    \/ pen_reg
    \/ pen_return

SpecPen == InitPen /\ [][NextPen]_vars

\* the constructor's defaults for reg and reg_growth
DefaultReg == 2

DefaultRegGrowth == 3

InitPenDefault ==
    /\ InitPen
    /\ reg = float(DefaultReg)
    /\ reg_growth = float(DefaultRegGrowth)

\* the interpreter runs _fit on, one step after the other
SpecPenFair == InitPenDefault /\ [][NextPen]_vars /\ WF_vars(NextPen)

----------------------------------------------------------------------------
(* Claims about BinaryMFPenalty._fit *)

\* the loop has been left or is about to be left
Stopped == terminal # "none"

completed ==
    IF pc \in {"pen_error", "pen_early_stop", "pen_reg"} THEN pen_n_iter - 1
    ELSE pen_n_iter

\* r multiplied N times by g
RECURSIVE grown(_, _, _)
grown(r, g, N) == IF N = 0 THEN r ELSE fmul(grown(r, g, N - 1), g)

\* a <= b for floats that are not nan
fle(a, b) == is_inf(b) \/ (fin(a) /\ fin(b) /\ a <= b)

\* C12: reg is changed once per loop iteration, by a multiplication with
\* reg_growth at the end of the iteration, and nowhere else; with
\* reg_growth >= 1 it stays positive and never decreases; after N completed
\* iterations it is the initial reg multiplied N times by reg_growth.
C12_RegGrowsGeometrically ==
    /\ [](reg = grown(reg_init, reg_growth, completed))
    /\ [][pc = "pen_reg" => reg' = fmul(reg, reg_growth)]_vars
    /\ [][pc # "pen_reg" => reg' = reg]_vars
    /\ [][completed' \in {completed, completed + 1}]_vars
    /\ [](reg_growth >= float(1) => fle(reg_init, reg) /\ reg # 0)
    /\ [][reg_growth >= float(1) => fle(reg, reg')]_vars

\* two completed iterations with the default growth: reg is 9 times what it was
C12_Witness ==
    /\ pc = "done"
    /\ completed = 2
    /\ reg_growth = float(DefaultRegGrowth)
    /\ fin(reg)
    /\ reg = 9 * reg_init

----------------------------------------------------------------------------
(* Claims about BinaryMFPenalty.update *)

\* every entry of the factor is a finite float, which is non-negative here
AllFinite(Mc) == \A r \in DOMAIN Mc : \A f \in DOMAIN Mc[r] : fin(Mc[r][f])

\* update has just returned
Updated == pc = "pen_error"

\* C13: if U and V are entrywise non-negative and reg > 0 before update, every
\* entry of U and V is non-negative and finite after it.
C13_NonNegativeFinite ==
    (Updated /\ AllFinite(U_pre) /\ AllFinite(V_pre) /\ fin(reg) /\ reg > 0)
        => (AllFinite(U) /\ AllFinite(V))

\* what holds instead: no entry is an inf or a nan that comes from a division
\* by zero alone, because the floored denominators are never zero
NoDivisionByZero ==
    \A Mc \in {U, V} : \A r \in DOMAIN Mc : \A f \in DOMAIN Mc[r] :
        Mc[r][f] \notin {Inf_dz, NaN_dz}

\* C17: an entry of U or V that is exactly 0 before update is exactly 0 after
\* it, so a zero entry never becomes non-zero.
C17_ZeroStaysZero ==
    Updated =>
        /\ \A i \in DOMAIN U : \A f \in DOMAIN U[i] : U_pre[i][f] = 0 => U[i][f] = 0
        /\ \A j \in DOMAIN V : \A f \in DOMAIN V[j] : V_pre[j][f] = 0 => V[j][f] = 0

----------------------------------------------------------------------------
(* Claims about BaseModel.early_stop *)

\* early_stop has just returned
EarlyStopped == pc = "pen_reg" /\ terminal = "EarlyStopped"

\* C14: after early_stop with a truncation k, U and V are their leading k
\* columns, unchanged, and self.k is the number of columns of U and of V;
\* without k, U, V and self.k are unchanged.
C14_TruncationSetsK ==
    EarlyStopped =>
        /\ k_arg = -1 => (U = U_es /\ V = V_es)
        /\ k_arg # -1 =>
              /\ \A i \in DOMAIN U : U[i] = SubSeq(U_es[i], 1, k_arg)
              /\ \A j \in DOMAIN V : V[j] = SubSeq(V_es[j], 1, k_arg)
        /\ self_k = cols(U)
        /\ self_k = cols(V)

====
